---- MODULE Spec2Model ----
(***************************************************************************)
(* astro-security: configuration scaffold/migration (config/writer.ts),    *)
(* configuration loading and normalisation (config/reader.ts), RFC 9116    *)
(* serialisation and output writing (build/generate.ts) and the two Astro  *)
(* hooks that drive them (index.ts).                                       *)
(*                                                                         *)
(* JavaScript values are tagged records.  A JavaScript string is a         *)
(* sequence of tokens; a token stands for a run of characters that the     *)
(* code never looks inside ("https://", "mailto:", a line feed, a host     *)
(* name, ...), so startsWith is a test on the first token and a line break *)
(* is the token LF.                                                        *)
(***************************************************************************)
EXTENDS Integers, Sequences, FiniteSets, TLC

VARIABLES
    fs,       \* the project directory and the build output directory
    phase,    \* where the host (or the pure pipeline) stands
    input,    \* the parsed value handed to normaliseConfig
    config,   \* the SecurityConfig last returned by the reader
    text,     \* the contents computed by generateSecurityTxt
    last,     \* the last operation and the failure injected into it
    prev,     \* fs as it was before the last operation
    settled,  \* the configuration files as the first clean ensure call left them
    calls,    \* how many times the setup hook has run
    start,    \* fs as the behaviour found it
    procs,    \* racing setup steps: each process's position and outcome
    actor,    \* files another actor has created during the race
    raised    \* what the last hook and the functions it called threw to their callers

vars ==
    <<fs, phase, input, config, text, last, prev, settled, calls, start, procs, actor, raised>>

(***************************************************************************)
(* Bounds of the model.                                                    *)
(***************************************************************************)
MaxStrLen == 1      \* tokens after the prefix of an enumerated string
MaxArrLen == 2      \* entries of an enumerated array
MaxSetupCalls == 2  \* runs of the setup hook in one behaviour
NumProcs == 2       \* processes racing in the setup step
MaxActorWrites == 1 \* files another actor creates during a race

(***************************************************************************)
(* JavaScript values.                                                      *)
(***************************************************************************)
Undef == [t |-> "undefined"]
Null == [t |-> "null"]
Bool(b) == [t |-> "boolean", v |-> b]
Num(n) == [t |-> "number", v |-> n]
Str(s) == [t |-> "string", v |-> s]
Arr(a) == [t |-> "array", v |-> a]
Obj(f) == [t |-> "object", v |-> f]

LF == "\n"
HTTPS == "https://"
MAILTO == "mailto:"

\* typeof value
TypeOf(value) ==
    CASE value.t \in {"null", "array", "object"} -> "object"
      [] OTHER -> value.t

\* Array.isArray(value)
IsArray(value) == value.t = "array"

\* value[key]: reading a property that is not there yields undefined
Get(value, key) ==
    IF value.t = "object" /\ key \in DOMAIN value.v THEN value.v[key] ELSE Undef

\* value.startsWith(prefix), for a one-token prefix
StartsWith(value, prefix) == Len(value.v) >= 1 /\ value.v[1] = prefix

\* Date.parse(value) is not NaN: the host accepts the date-time strings
ParseableDates ==
    { <<"2026-12-31T18:37:07.000Z">>, <<"1970-01-01T00:00:00.000Z">>,
      <<"2020-01-01">> }

(***************************************************************************)
(* config/reader.ts: validation helpers.                                   *)
(***************************************************************************)
isObject(value) == TypeOf(value) = "object" /\ value # Null

isString(value) == TypeOf(value) = "string" /\ Len(value.v) > 0

isValidContact(value) ==
    isString(value) /\ (StartsWith(value, MAILTO) \/ StartsWith(value, HTTPS))

isValidISODate(value) == value.v \in ParseableDates

IsHttps(value) == isString(value) /\ StartsWith(value, HTTPS)

asOptionalHttpsLoose(value) == IF isString(value) THEN value ELSE Undef

asOptionalHttps(value) == IF IsHttps(value) THEN value ELSE Undef

asOptionalHttpsArray(value) ==
    IF ~IsArray(value) THEN Undef
    ELSE LET filtered == SelectSeq(value.v, IsHttps)
         IN  IF Len(filtered) > 0 THEN Arr(filtered) ELSE Undef

asOptionalStringArray(value) ==
    IF ~IsArray(value) THEN Undef
    ELSE LET filtered == SelectSeq(value.v, isString)
         IN  IF Len(filtered) > 0 THEN Arr(filtered) ELSE Undef

(***************************************************************************)
(* config/reader.ts: FALLBACK_CONFIG and normaliseConfig.                  *)
(***************************************************************************)
FALLBACK_CONFIG ==
    Obj([enabled |-> Bool(FALSE),
         output  |-> Obj([wellKnown |-> Bool(FALSE), root |-> Bool(FALSE)]),
         policy  |-> Obj([contact |-> Arr(<<>>),
                          expires |-> Str(<<"1970-01-01T00:00:00.000Z">>)])])

\* the object literal returned once the required fields have passed
NormalisedObject(enabled, output, contact, expires, policy) ==
    Obj([enabled |-> enabled,
         output  |-> output,
         policy  |-> Obj(
            [contact            |-> Arr(contact),
             expires            |-> expires,
             encryption         |-> asOptionalHttps(Get(policy, "encryption")),
             acknowledgments    |-> asOptionalHttps(Get(policy, "acknowledgments")),
             preferredLanguages |-> asOptionalStringArray(Get(policy, "preferredLanguages")),
             canonical          |-> asOptionalHttpsArray(Get(policy, "canonical")),
             policy             |-> asOptionalHttps(Get(policy, "policy")),
             hiring             |-> asOptionalHttps(Get(policy, "hiring")),
             csaf               |-> asOptionalHttps(Get(policy, "csaf"))])])

\* the return taken when a required field is missing or invalid
RequiredFieldsFallbackSalvaging(enabled, output) ==
    Obj([enabled |-> enabled, output |-> output,
         policy |-> Get(FALLBACK_CONFIG, "policy")])

RequiredFieldsFallback(enabled, output) == FALLBACK_CONFIG

normaliseConfig(in) ==
    IF ~isObject(in) THEN FALLBACK_CONFIG
    ELSE
      LET enabled ==
              IF TypeOf(Get(in, "enabled")) = "boolean"
              THEN Get(in, "enabled")
              ELSE Get(FALLBACK_CONFIG, "enabled")
          out == Get(in, "output")
          output ==
              Obj([wellKnown |->
                      IF isObject(out) /\ TypeOf(Get(out, "wellKnown")) = "boolean"
                      THEN Get(out, "wellKnown")
                      ELSE Get(Get(FALLBACK_CONFIG, "output"), "wellKnown"),
                   root |->
                      IF isObject(out) /\ TypeOf(Get(out, "root")) = "boolean"
                      THEN Get(out, "root")
                      ELSE Get(Get(FALLBACK_CONFIG, "output"), "root")])
          policy == Get(in, "policy")
      IN
      IF ~isObject(policy) THEN FALLBACK_CONFIG
      ELSE
        LET contact ==
                IF IsArray(Get(policy, "contact"))
                THEN SelectSeq(Get(policy, "contact").v, isValidContact)
                ELSE <<>>
            expires ==
                IF TypeOf(Get(policy, "expires")) = "string"
                   /\ isValidISODate(Get(policy, "expires"))
                THEN Get(policy, "expires")
                ELSE Null
        IN
        IF Len(contact) = 0 \/ expires = Null
        THEN RequiredFieldsFallback(enabled, output)
        ELSE NormalisedObject(enabled, output, contact, expires, policy)

(***************************************************************************)
(* build/generate.ts: the directive lines and the contents.                *)
(***************************************************************************)
\* if (value): undefined, null, false, 0 and "" are falsy
Truthy(value) ==
    CASE value.t \in {"undefined", "null"} -> FALSE
      [] value.t = "boolean" -> value.v
      [] value.t = "number" -> value.v # 0
      [] value.t = "string" -> Len(value.v) > 0
      [] OTHER -> TRUE

RECURSIVE Join(_, _)
\* parts.join(sep), on strings held as token sequences
Join(parts, sep) ==
    IF Len(parts) = 0 THEN <<>>
    ELSE IF Len(parts) = 1 THEN parts[1]
    ELSE parts[1] \o <<sep>> \o Join(Tail(parts), sep)

\* `Name: ${value}`
Directive(name, value) == <<name>> \o value.v

\* one line per entry of an array-valued field
DirectivePerEntry(name, entries) ==
    [i \in 1..Len(entries) |-> Directive(name, entries[i])]

\* an optional single-valued directive: pushed only if the field is truthy
OptionalDirective(name, value) ==
    IF Truthy(value) THEN <<Directive(name, value)>> ELSE <<>>

PreferredLanguagesLines(value) ==
    IF IsArray(value) /\ Len(value.v) > 0
    THEN << <<"Preferred-Languages: ">>
            \o Join([i \in 1..Len(value.v) |-> value.v[i].v], ", ") >>
    ELSE <<>>

CanonicalLines(value) ==
    IF IsArray(value) /\ Len(value.v) > 0
    THEN DirectivePerEntry("Canonical: ", value.v)
    ELSE <<>>

SecurityTxtLinesHiringFirst(cfg) ==
    LET p == Get(cfg, "policy")
    IN  DirectivePerEntry("Contact: ", Get(p, "contact").v)
        \o <<Directive("Expires: ", Get(p, "expires"))>>
        \o OptionalDirective("Encryption: ", Get(p, "encryption"))
        \o OptionalDirective("Acknowledgments: ", Get(p, "acknowledgments"))
        \o PreferredLanguagesLines(Get(p, "preferredLanguages"))
        \o CanonicalLines(Get(p, "canonical"))
        \o OptionalDirective("Hiring: ", Get(p, "hiring"))
        \o OptionalDirective("Policy: ", Get(p, "policy"))
        \o OptionalDirective("CSAF: ", Get(p, "csaf"))

SecurityTxtLines(cfg) ==
    LET p == Get(cfg, "policy")
    IN  DirectivePerEntry("Contact: ", Get(p, "contact").v)
        \o <<Directive("Expires: ", Get(p, "expires"))>>
        \o OptionalDirective("Encryption: ", Get(p, "encryption"))
        \o OptionalDirective("Acknowledgments: ", Get(p, "acknowledgments"))
        \o PreferredLanguagesLines(Get(p, "preferredLanguages"))
        \o CanonicalLines(Get(p, "canonical"))
        \o OptionalDirective("Policy: ", Get(p, "policy"))
        \o OptionalDirective("Hiring: ", Get(p, "hiring"))
        \o OptionalDirective("CSAF: ", Get(p, "csaf"))

\* const contents = lines.join("\n") + "\n"
SecurityTxtContents(cfg) == Join(SecurityTxtLines(cfg), LF) \o <<LF>>

(***************************************************************************)
(* Parsed inputs handed to normaliseConfig.  Every object carries a field  *)
(* outside the schema ("extra"), at the top level and inside policy.       *)
(***************************************************************************)
SeqsUpTo(S, n) == UNION { [1..k -> S] : k \in 0..n }

Bodies == SeqsUpTo({"a", LF}, MaxStrLen)

Strings == { p \o b : p \in {<<>>, <<HTTPS>>, <<MAILTO>>, <<"http://">>}, b \in Bodies }

GoodDate == Str(<<"2026-12-31T18:37:07.000Z">>)

GoodContact == Arr(<<Str(<<MAILTO, "security@example.com">>)>>)

ScalarValues ==
    {Undef, Null, Num(0), Num(1), Bool(TRUE), Arr(<<Str(<<HTTPS, "a">>)>>)}
    \cup { Str(s) : s \in Strings }

\* the values one optional scalar takes when all five vary together
FewScalars(field) ==
    {Undef, Str(<<>>), Str(<<HTTPS, field>>), Str(<<"http://", field>>)}

ContactEntries ==
    {Num(1), Str(<<>>), Str(<<"a">>), Str(<<HTTPS, "a">>), Str(<<MAILTO, "a">>),
     Str(<<HTTPS, "a", LF, "b">>)}

ContactValues ==
    {Undef, Str(<<MAILTO, "a">>), Obj([length |-> Num(1)])}
    \cup { Arr(a) : a \in SeqsUpTo(ContactEntries, MaxArrLen) }

ExpiresValues ==
    {Undef, Num(1), Str(<<>>), GoodDate, Str(<<"2020-01-01">>), Str(<<"tomorrow">>),
     Str(<<"2026-12-31T18:37:07.000Z", LF, "a">>)}

LanguageValues ==
    {Undef, Str(<<"en">>)}
    \cup { Arr(a) : a \in SeqsUpTo({Num(1), Str(<<>>), Str(<<"en">>), Str(<<"en-GB">>)},
                                   MaxArrLen) }

CanonicalValues ==
    {Undef, Str(<<HTTPS, "c">>)}
    \cup { Arr(a) : a \in SeqsUpTo({Num(1), Str(<<"c">>), Str(<<HTTPS, "c">>),
                                    Str(<<HTTPS, "d">>)}, MaxArrLen) }

EnabledValues == {Undef, Bool(TRUE), Bool(FALSE), Str(<<"true">>)}

OutputValues ==
    {Undef, Null,
     Obj([wellKnown |-> Bool(TRUE), root |-> Bool(TRUE)]),
     Obj([wellKnown |-> Bool(TRUE), root |-> Bool(FALSE)]),
     Obj([wellKnown |-> Num(1), root |-> Bool(TRUE)]),
     Obj([root |-> Str(<<"true">>)])}

BothOutputs == Obj([wellKnown |-> Bool(TRUE), root |-> Bool(TRUE)])

PolicyObject(contact, expires, enc, ack, langs, canon, pol, hiring, csaf) ==
    Obj([contact |-> contact, expires |-> expires, encryption |-> enc,
         acknowledgments |-> ack, preferredLanguages |-> langs, canonical |-> canon,
         policy |-> pol, hiring |-> hiring, csaf |-> csaf,
         extra |-> Str(<<HTTPS, "extra">>)])

ConfigObject(enabled, output, policy) ==
    Obj([enabled |-> enabled, output |-> output, policy |-> policy,
         extra |-> Str(<<HTTPS, "extra">>)])

AllOptional(contact, expires) ==
    PolicyObject(contact, expires, Str(<<HTTPS, "encryption">>),
                 Str(<<HTTPS, "acknowledgments">>), Arr(<<Str(<<"en">>)>>),
                 Arr(<<Str(<<HTTPS, "c">>)>>), Str(<<HTTPS, "policy">>),
                 Str(<<HTTPS, "hiring">>), Str(<<HTTPS, "csaf">>))

NoOptional(contact, expires) ==
    PolicyObject(contact, expires, Undef, Undef, Undef, Undef, Undef, Undef, Undef)

\* inputs that are not objects, or whose policy is not one
ShapeInputs ==
    {Undef, Null, Num(1), Bool(TRUE), Str(<<HTTPS, "a">>), Arr(<<>>),
     Arr(<<ConfigObject(Bool(TRUE), BothOutputs, AllOptional(GoodContact, GoodDate))>>)}
    \cup { ConfigObject(e, o, p) :
             e \in EnabledValues, o \in OutputValues,
             p \in {Undef, Null, Num(1), Str(<<HTTPS, "a">>), Arr(<<>>),
                    Arr(<<AllOptional(GoodContact, GoodDate)>>)} }

\* policies that pass the required fields, and policies that fail each of them
FewPolicies ==
    {AllOptional(GoodContact, GoodDate), NoOptional(GoodContact, GoodDate),
     AllOptional(Arr(<<>>), GoodDate), AllOptional(Arr(<<Str(<<"a">>)>>), GoodDate),
     AllOptional(GoodContact, Undef), NoOptional(GoodContact, Str(<<"tomorrow">>)),
     NoOptional(Arr(<<Str(<<HTTPS, "a", LF, "b">>)>>), GoodDate)}

\* inputs that vary the switches, and inputs that vary the required fields
RequiredInputs ==
    { ConfigObject(e, o, p) :
        e \in EnabledValues, o \in OutputValues, p \in FewPolicies }
    \cup
    { ConfigObject(Bool(TRUE), BothOutputs, p) :
        p \in { AllOptional(c, x) : c \in ContactValues, x \in ExpiresValues }
              \cup { NoOptional(c, x) : c \in ContactValues, x \in ExpiresValues } }

\* inputs that vary the optional scalars, all five together and one at a time
ScalarInputs ==
    { ConfigObject(Bool(TRUE), BothOutputs,
                   PolicyObject(GoodContact, GoodDate, enc, ack, Undef, Undef,
                                pol, hiring, csaf)) :
        enc \in FewScalars("encryption"), ack \in FewScalars("acknowledgments"),
        pol \in FewScalars("policy"), hiring \in FewScalars("hiring"),
        csaf \in FewScalars("csaf") }
    \cup
    { ConfigObject(Bool(TRUE), BothOutputs,
                   Obj([f \in {"contact", "expires", field} |->
                           IF f = "contact" THEN GoodContact
                           ELSE IF f = "expires" THEN GoodDate ELSE x])) :
        field \in {"encryption", "acknowledgments", "policy", "hiring", "csaf"},
        x \in ScalarValues }

FewLanguages == {Undef, Arr(<<Str(<<"en">>)>>), Arr(<<Num(1), Str(<<"en-GB">>)>>)}

FewCanonicals ==
    {Undef, Arr(<<Str(<<HTTPS, "c">>)>>), Arr(<<Str(<<"c">>), Str(<<HTTPS, "d">>)>>)}

ArrayPolicy(langs, canon) ==
    PolicyObject(GoodContact, GoodDate, Undef, Str(<<HTTPS, "acknowledgments">>),
                 langs, canon, Str(<<HTTPS, "policy">>), Undef, Undef)

\* inputs that vary the two optional arrays, each against a few values of the other
ArrayInputs ==
    { ConfigObject(Bool(TRUE), BothOutputs, ArrayPolicy(langs, canon)) :
        langs \in LanguageValues, canon \in FewCanonicals }
    \cup
    { ConfigObject(Bool(TRUE), BothOutputs, ArrayPolicy(langs, canon)) :
        langs \in FewLanguages, canon \in CanonicalValues }

\* the example configuration of the README
ReadmeExample ==
    Obj([enabled |-> Bool(TRUE),
         output  |-> BothOutputs,
         policy  |-> Obj(
            [contact |-> Arr(<<Str(<<MAILTO, "security@example.com">>)>>),
             expires |-> Str(<<"2026-12-31T18:37:07.000Z">>),
             preferredLanguages |-> Arr(<<Str(<<"en">>)>>),
             canonical |-> Arr(<<Str(<<HTTPS, "example.com/.well-known/security.txt">>),
                                 Str(<<HTTPS, "example.com/security.txt">>)>>),
             hiring |-> Str(<<HTTPS, "example.com/careers/security">>)])])

Inputs ==
    ShapeInputs \cup RequiredInputs \cup ScalarInputs \cup ArrayInputs
    \cup {ReadmeExample}

(***************************************************************************)
(* Files.  A file is absent or holds a text; JSON.stringify and JSON.parse *)
(* convert between values and texts.                                       *)
(***************************************************************************)
NoFile == [kind |-> "absent"]

\* a text that is not JSON
GarbageText == [kind |-> "garbage"]

\* the contents written to an output file
TextFile(body) == [kind |-> "text", body |-> body]

RECURSIVE DropUndefined(_)
\* JSON.stringify leaves out a property whose value is undefined and writes
\* an undefined array entry as null
DropUndefined(value) ==
    CASE value.t = "object" ->
           Obj([k \in {j \in DOMAIN value.v : value.v[j] # Undef} |->
                    DropUndefined(value.v[k])])
      [] value.t = "array" ->
           Arr([i \in 1..Len(value.v) |->
                    IF value.v[i] = Undef THEN Null ELSE DropUndefined(value.v[i])])
      [] OTHER -> value

JSONStringify(value) == [kind |-> "json", doc |-> DropUndefined(value)]

\* JSON.parse(raw): the value, or a SyntaxError
JSONParse(raw) ==
    IF raw.kind = "json" THEN [ok |-> TRUE, value |-> raw.doc] ELSE [ok |-> FALSE]

(***************************************************************************)
(* config/paths.ts and the paths built in reader.ts and generate.ts.  A    *)
(* path is its sequence of segments; path.join appends.                    *)
(***************************************************************************)
Cwd == <<"cwd">>

CONFIG_FILENAME == "security.config.json"

CONFIG_DIR == Cwd \o <<"config-files">>

NEW_CONFIG_PATH == CONFIG_DIR \o <<CONFIG_FILENAME>>

LEGACY_CONFIG_PATH == Cwd \o <<CONFIG_FILENAME>>

\* reader.ts: const configPath = path.join(projectRoot, CONFIG_FILENAME)
ReaderConfigPath == Cwd \o <<CONFIG_FILENAME>>

\* the directory the build-done hook passes on
OutDir == <<"dist">>

WellKnownDir(outDir) == outDir \o <<".well-known">>

WellKnownTarget(outDir) == WellKnownDir(outDir) \o <<"security.txt">>

RootTarget(outDir) == outDir \o <<"security.txt">>

\* path.join(dir, `.${base}.tmp`)
TempPath(targetPath) ==
    SubSeq(targetPath, 1, Len(targetPath) - 1)
    \o <<"." \o targetPath[Len(targetPath)] \o ".tmp">>

FilePaths ==
    {NEW_CONFIG_PATH, LEGACY_CONFIG_PATH, ReaderConfigPath,
     WellKnownTarget(OutDir), RootTarget(OutDir),
     TempPath(WellKnownTarget(OutDir)), TempPath(RootTarget(OutDir))}

\* fs.existsSync(path)
ExistsSync(f, path) ==
    \/ path \in f.dirs
    \/ path \in DOMAIN f.files /\ f.files[path] # NoFile

\* fs.mkdirSync(dir, { recursive: true })
MkdirSync(f, dir) == [f EXCEPT !.dirs = @ \cup {dir}]

\* fs.renameSync(from, to), from an existing file: to is replaced
RenameSync(f, from, to) ==
    [f EXCEPT !.files = [@ EXCEPT ![to] = f.files[from], ![from] = NoFile]]

\* fs.writeFileSync(path, data): the file is created or replaced
WriteFileSync(f, path, data) == [f EXCEPT !.files[path] = data]

\* a file cut short by a write that failed after the file was opened
Truncated == [kind |-> "truncated"]

IdleFs == [files |-> [p \in FilePaths |-> NoFile], dirs |-> {}]

NoOp == [op |-> "none", fail |-> "none", fail2 |-> "none"]

NoSnapshot == [taken |-> FALSE]

Procs == 1..NumProcs

IdleProcs == [p \in Procs |-> [pc |-> "idle", outcome |-> "none"]]

NoText == <<>>

NoRaise == [function |-> FALSE, hook |-> FALSE]

(***************************************************************************)
(* SpecNorm: the pure pipeline, parsed value -> SecurityConfig -> contents *)
(***************************************************************************)
InitNorm ==
    /\ input \in Inputs
    /\ phase = "parsed"
    /\ config = Undef
    /\ text = NoText
    /\ fs = IdleFs
    /\ last = NoOp
    /\ prev = IdleFs
    /\ settled = NoSnapshot
    /\ calls = 0
    /\ start = IdleFs
    /\ procs = IdleProcs
    /\ actor = 0
    /\ raised = NoRaise

\* return normaliseConfig(parsed)
Normalise ==
    /\ phase = "parsed"
    /\ config' = normaliseConfig(input)
    /\ phase' = "normalised"
    /\ UNCHANGED <<fs, input, text, last, prev, settled, calls, start, procs, actor, raised>>

\* generateSecurityTxt up to `const contents`: nothing for a disabled config
BuildContents ==
    /\ phase = "normalised"
    /\ Truthy(Get(config, "enabled"))
    /\ text' = SecurityTxtContents(config)
    /\ phase' = "generated"
    /\ UNCHANGED <<fs, input, config, last, prev, settled, calls, start, procs, actor, raised>>

NextNorm == Normalise \/ BuildContents

SpecNorm == InitNorm /\ [][NextNorm]_vars

(***************************************************************************)
(* config/writer.ts: DEFAULT_CONFIG and ensureSecurityConfigFile.  `fail`  *)
(* names the filesystem call that throws, if the handler gets to it.       *)
(***************************************************************************)
DEFAULT_CONFIG ==
    Obj([enabled |-> Bool(TRUE),
         output  |-> Obj([wellKnown |-> Bool(TRUE), root |-> Bool(TRUE)]),
         policy  |-> Obj(
            [contact |-> Arr(<<Str(<<MAILTO, "security@example.com">>)>>),
             expires |-> Str(<<"2026-12-31T18:37:07.000Z">>),
             encryption |-> Str(<<HTTPS, "example.com/.well-known/pgp-key.txt">>),
             acknowledgments |-> Str(<<HTTPS, "example.com/security/thanks">>),
             preferredLanguages |-> Arr(<<Str(<<"en">>)>>),
             canonical |-> Arr(<<Str(<<HTTPS, "example.com/.well-known/security.txt">>),
                                 Str(<<HTTPS, "example.com/security.txt">>)>>),
             policy |-> Str(<<HTTPS, "example.com/security">>),
             hiring |-> Str(<<HTTPS, "example.com/careers/security">>),
             csaf |-> Str(<<HTTPS, "example.com/.well-known/csaf/provider-metadata.json">>)])])

EnsureFaults == {"none", "mkdir", "rename", "open", "write"}

\* fs.writeFileSync(path, data, { flag: "wx" }) when nothing is at path:
\* the open may fail, or the write may fail after the file was created
WriteFileExclusive(f, path, data, fail) ==
    IF ExistsSync(f, path) \/ fail = "open" THEN f
    ELSE IF fail = "write" THEN WriteFileSync(f, path, Truncated)
    ELSE WriteFileSync(f, path, data)

ensureSecurityConfigFileLegacyFirst(f, fail) ==
    IF fail = "mkdir" THEN f
    ELSE
      LET g == MkdirSync(f, CONFIG_DIR)
      IN  IF ExistsSync(g, LEGACY_CONFIG_PATH)
          THEN IF fail = "rename" THEN g
               ELSE RenameSync(g, LEGACY_CONFIG_PATH, NEW_CONFIG_PATH)
          ELSE IF ExistsSync(g, NEW_CONFIG_PATH) THEN g
          ELSE WriteFileExclusive(g, NEW_CONFIG_PATH, JSONStringify(DEFAULT_CONFIG), fail)

ensureSecurityConfigFileDefaultAtRoot(f, fail) ==
    IF fail = "mkdir" THEN f
    ELSE
      LET g == MkdirSync(f, CONFIG_DIR)
      IN  IF ExistsSync(g, NEW_CONFIG_PATH) THEN g
          ELSE IF ExistsSync(g, LEGACY_CONFIG_PATH)
          THEN IF fail = "rename" THEN g
               ELSE RenameSync(g, LEGACY_CONFIG_PATH, NEW_CONFIG_PATH)
          ELSE WriteFileExclusive(g, LEGACY_CONFIG_PATH, JSONStringify(DEFAULT_CONFIG), fail)

ensureSecurityConfigFile(f, fail) ==
    IF fail = "mkdir" THEN f
    ELSE
      LET g == MkdirSync(f, CONFIG_DIR)
      IN  IF ExistsSync(g, NEW_CONFIG_PATH) THEN g
          ELSE IF ExistsSync(g, LEGACY_CONFIG_PATH)
          THEN IF fail = "rename" THEN g
               ELSE RenameSync(g, LEGACY_CONFIG_PATH, NEW_CONFIG_PATH)
          ELSE WriteFileExclusive(g, NEW_CONFIG_PATH, JSONStringify(DEFAULT_CONFIG), fail)

(***************************************************************************)
(* config/reader.ts: loadSecurityConfig.                                   *)
(***************************************************************************)
LoadFaults == {"none", "cwd", "read"}

loadSecurityConfig(f, fail) ==
    IF fail = "cwd" THEN FALLBACK_CONFIG
    ELSE IF ~ExistsSync(f, ReaderConfigPath) THEN FALLBACK_CONFIG
    ELSE IF fail = "read" THEN FALLBACK_CONFIG
    ELSE LET parsed == JSONParse(f.files[ReaderConfigPath])
         IN  IF parsed.ok THEN normaliseConfig(parsed.value) ELSE FALLBACK_CONFIG

(***************************************************************************)
(* build/generate.ts: atomicWrite and the writing part of                  *)
(* generateSecurityTxt.  A call yields the filesystem it leaves and        *)
(* whether it threw.                                                       *)
(***************************************************************************)
GenerateFaults ==
    {"none", "mkdir", "wk-write", "wk-rename", "root-write", "root-rename"}

atomicWriteInPlace(f, targetPath, contents, failWrite, failRename) ==
    IF failWrite
    THEN [fs |-> WriteFileSync(f, targetPath, Truncated), threw |-> TRUE]
    ELSE [fs |-> WriteFileSync(f, targetPath, contents), threw |-> failRename]

atomicWrite(f, targetPath, contents, failWrite, failRename) ==
    LET tempPath == TempPath(targetPath)
    IN  IF failWrite
        THEN [fs |-> WriteFileSync(f, tempPath, Truncated), threw |-> TRUE]
        ELSE LET g == WriteFileSync(f, tempPath, contents)
             IN  IF failRename THEN [fs |-> g, threw |-> TRUE]
                 ELSE [fs |-> RenameSync(g, tempPath, targetPath), threw |-> FALSE]

generateSecurityTxt(f, outDir, cfg, fail) ==
    IF ~Truthy(Get(cfg, "enabled")) THEN f
    ELSE IF ~ExistsSync(f, outDir) THEN f
    ELSE
      LET contents == TextFile(SecurityTxtContents(cfg))
          wellKnown ==
              IF ~Truthy(Get(Get(cfg, "output"), "wellKnown"))
              THEN [fs |-> f, threw |-> FALSE]
              ELSE IF fail = "mkdir" THEN [fs |-> f, threw |-> TRUE]
              ELSE atomicWrite(MkdirSync(f, WellKnownDir(outDir)),
                               WellKnownTarget(outDir), contents,
                               fail = "wk-write", fail = "wk-rename")
      IN  IF wellKnown.threw THEN wellKnown.fs
          ELSE IF ~Truthy(Get(Get(cfg, "output"), "root")) THEN wellKnown.fs
          ELSE atomicWrite(wellKnown.fs, RootTarget(outDir), contents,
                           fail = "root-write", fail = "root-rename").fs

(***************************************************************************)
(* What each function throws to its caller.  A call that `fail` names      *)
(* throws when the function gets to it; the place of the call inside or    *)
(* outside a try block decides whether the caller sees it.                 *)
(***************************************************************************)
\* try { ... } catch { }: the handler neither rethrows nor throws
TryCatch(threw) == FALSE

\* writer.ts: every filesystem call of ensureSecurityConfigFile is inside its
\* try block; renameSync and the exclusive write also throw on their own
ensureSecurityConfigFileThrows(f, fail) ==
    TryCatch(\/ fail = "mkdir"
             \/ fail \in {"rename", "open", "write"} /\ ~ExistsSync(f, NEW_CONFIG_PATH))

\* reader.ts: process.cwd() in the first try block, existsSync outside
\* (it does not throw), readFileSync and JSON.parse in the second
loadSecurityConfigThrows(f, fail) ==
    IF fail = "cwd" THEN TryCatch(TRUE)
    ELSE IF ~ExistsSync(f, ReaderConfigPath) THEN FALSE
    ELSE TryCatch(fail = "read" \/ ~JSONParse(f.files[ReaderConfigPath]).ok)

generateSecurityTxtThrowsBeforeTry(f, outDir, cfg, fail) ==
    IF ~Truthy(Get(cfg, "enabled")) THEN FALSE
    ELSE IF ~ExistsSync(f, outDir) THEN FALSE
    ELSE IF Truthy(Get(Get(cfg, "output"), "wellKnown")) /\ fail = "mkdir" THEN TRUE
    ELSE TryCatch(fail # "none")

\* generate.ts: the guards and the serialisation are outside the try block
\* and do not throw for a SecurityConfig; mkdirSync and both atomicWrite
\* calls are inside
generateSecurityTxtThrows(f, outDir, cfg, fail) ==
    IF ~Truthy(Get(cfg, "enabled")) THEN FALSE
    ELSE IF ~ExistsSync(f, outDir) THEN FALSE
    ELSE TryCatch(fail # "none")

(***************************************************************************)
(* Spec: one project directory, the host running the integration's hooks.  *)
(***************************************************************************)
ValidPolicy == AllOptional(GoodContact, GoodDate)

\* what the project's configuration files may hold when the host starts
ConfigTexts ==
    { JSONStringify(DEFAULT_CONFIG),
      JSONStringify(ReadmeExample),
      JSONStringify(ConfigObject(Bool(FALSE), BothOutputs, ValidPolicy)),
      JSONStringify(ConfigObject(Undef, BothOutputs, ValidPolicy)),
      JSONStringify(ConfigObject(Bool(TRUE), BothOutputs,
                                 AllOptional(Arr(<<Str(<<"a">>)>>), GoodDate))),
      JSONStringify(ConfigObject(Bool(TRUE),
                                 Obj([wellKnown |-> Bool(TRUE), root |-> Bool(FALSE)]),
                                 NoOptional(GoodContact, GoodDate))),
      JSONStringify(ConfigObject(Bool(TRUE),
                                 Obj([wellKnown |-> Bool(FALSE), root |-> Bool(TRUE)]),
                                 NoOptional(GoodContact, GoodDate))),
      GarbageText }

\* an output file left by an earlier build
OldOutput == TextFile(<<"Contact: ", MAILTO, "old@example.com", LF>>)

Init ==
    /\ \E legacy \in ConfigTexts \cup {NoFile}, canonical \in ConfigTexts \cup {NoFile},
          wk \in {NoFile, OldOutput}, root \in {NoFile, OldOutput}, outDir \in BOOLEAN :
          /\ ~outDir => wk = NoFile
          /\ root = wk
          /\ fs = [files |-> [p \in FilePaths |->
                                 CASE p = LEGACY_CONFIG_PATH -> legacy
                                   [] p = NEW_CONFIG_PATH -> canonical
                                   [] p = WellKnownTarget(OutDir) -> wk
                                   [] p = RootTarget(OutDir) -> root
                                   [] OTHER -> NoFile],
                   dirs |-> (IF canonical # NoFile THEN {CONFIG_DIR} ELSE {})
                            \cup (IF outDir THEN {OutDir} ELSE {})
                            \cup (IF wk # NoFile THEN {WellKnownDir(OutDir)} ELSE {})]
    /\ phase = "idle"
    /\ input = Undef
    /\ config = Undef
    /\ text = NoText
    /\ last = NoOp
    /\ prev = fs
    /\ settled = NoSnapshot
    /\ calls = 0
    /\ start = fs
    /\ procs = IdleProcs
    /\ actor = 0
    /\ raised = NoRaise

\* the call that `fail` names is one this run of the handler makes
FaultHits(f, fail) ==
    CASE fail = "mkdir" -> TRUE
      [] fail = "rename" ->
           ~ExistsSync(f, NEW_CONFIG_PATH) /\ ExistsSync(f, LEGACY_CONFIG_PATH)
      [] OTHER ->
           ~ExistsSync(f, NEW_CONFIG_PATH) /\ ~ExistsSync(f, LEGACY_CONFIG_PATH)

WriteFaultHits(f, cfg, fail) ==
    /\ Get(cfg, "enabled") = Bool(TRUE)
    /\ ExistsSync(f, OutDir)
    /\ fail \in {"mkdir", "wk-write", "wk-rename"}
          => Truthy(Get(Get(cfg, "output"), "wellKnown"))
    /\ fail \in {"root-write", "root-rename"}
          => Truthy(Get(Get(cfg, "output"), "root"))

\* hook "astro:config:setup"
ConfigSetup ==
    /\ calls < MaxSetupCalls
    /\ \E fail \in EnsureFaults :
          /\ fail = "none" \/ FaultHits(fs, fail)
          /\ fs' = ensureSecurityConfigFile(fs, fail)
          /\ last' = [op |-> "setup", fail |-> fail, fail2 |-> "none"]
          /\ raised' = [function |-> ensureSecurityConfigFileThrows(fs, fail),
                        hook |-> TryCatch(ensureSecurityConfigFileThrows(fs, fail))]
          /\ settled' =
               IF ~settled.taken /\ fail = "none"
               THEN [taken |-> TRUE,
                     canonical |-> fs'.files[NEW_CONFIG_PATH],
                     legacy |-> fs'.files[LEGACY_CONFIG_PATH]]
               ELSE settled
    /\ prev' = fs
    /\ calls' = calls + 1
    /\ phase' = "setup"
    /\ UNCHANGED <<input, config, text, start, procs, actor>>

\* hook "astro:build:done"
BuildDone ==
    /\ phase = "setup"
    /\ \E failLoad \in LoadFaults, failWrite \in GenerateFaults :
          /\ failLoad = "read" => ExistsSync(fs, ReaderConfigPath)
          /\ failWrite = "none" \/ WriteFaultHits(fs, loadSecurityConfig(fs, failLoad), failWrite)
          /\ config' = loadSecurityConfig(fs, failLoad)
          /\ fs' = IF config' = Undef \/ Get(config', "enabled") # Bool(TRUE)
                   THEN fs
                   ELSE generateSecurityTxt(fs, OutDir, config', failWrite)
          /\ last' = [op |-> "build", fail |-> failLoad, fail2 |-> failWrite]
          /\ raised' =
               LET load == loadSecurityConfigThrows(fs, failLoad)
                   generate ==
                       /\ config' # Undef
                       /\ Get(config', "enabled") = Bool(TRUE)
                       /\ generateSecurityTxtThrows(fs, OutDir, config', failWrite)
               IN  [function |-> load \/ generate,
                    hook |-> TryCatch(load) \/ (~load /\ TryCatch(generate))]
    /\ prev' = fs
    /\ phase' = "built"
    /\ UNCHANGED <<input, text, settled, calls, start, procs, actor>>

Next == ConfigSetup \/ BuildDone

Spec == Init /\ [][Next]_vars

(***************************************************************************)
(* SpecRace: several processes run ensureSecurityConfigFile on one project *)
(* directory, one filesystem call at a time, while another actor may       *)
(* create a configuration file.                                            *)
(***************************************************************************)
RaceLegacyText == JSONStringify(ReadmeExample)

RaceCanonicalText == JSONStringify(ConfigObject(Bool(FALSE), BothOutputs, ValidPolicy))

InitRace ==
    /\ \E legacy \in {NoFile, RaceLegacyText}, canonical \in {NoFile, RaceCanonicalText} :
          fs = [files |-> [p \in FilePaths |->
                              CASE p = LEGACY_CONFIG_PATH -> legacy
                                [] p = NEW_CONFIG_PATH -> canonical
                                [] OTHER -> NoFile],
                dirs |-> IF canonical # NoFile THEN {CONFIG_DIR} ELSE {}]
    /\ procs = [p \in Procs |-> [pc |-> "mkdir", outcome |-> "none"]]
    /\ actor = 0
    /\ raised = NoRaise
    /\ phase = "race"
    /\ input = Undef
    /\ config = Undef
    /\ text = NoText
    /\ last = NoOp
    /\ prev = fs
    /\ settled = NoSnapshot
    /\ calls = 0
    /\ start = fs

RaceFrame == UNCHANGED <<phase, input, config, text, last, settled, calls, start, raised>>

\* fs.mkdirSync(CONFIG_DIR, { recursive: true })
RaceMkdir(p) ==
    /\ procs[p].pc = "mkdir"
    /\ fs' = MkdirSync(fs, CONFIG_DIR)
    /\ procs' = [procs EXCEPT ![p].pc = "exists-new"]
    /\ prev' = fs
    /\ UNCHANGED actor
    /\ RaceFrame

\* if (fs.existsSync(NEW_CONFIG_PATH)) return
RaceExistsNew(p) ==
    /\ procs[p].pc = "exists-new"
    /\ procs' = IF ExistsSync(fs, NEW_CONFIG_PATH)
                THEN [procs EXCEPT ![p] = [pc |-> "done", outcome |-> "kept"]]
                ELSE [procs EXCEPT ![p].pc = "exists-legacy"]
    /\ prev' = fs
    /\ UNCHANGED <<fs, actor>>
    /\ RaceFrame

\* if (fs.existsSync(LEGACY_CONFIG_PATH))
RaceExistsLegacy(p) ==
    /\ procs[p].pc = "exists-legacy"
    /\ procs' = [procs EXCEPT ![p].pc =
                    IF ExistsSync(fs, LEGACY_CONFIG_PATH) THEN "rename" ELSE "write"]
    /\ prev' = fs
    /\ UNCHANGED <<fs, actor>>
    /\ RaceFrame

\* fs.renameSync(LEGACY_CONFIG_PATH, NEW_CONFIG_PATH): throws when the legacy
\* file is gone, replaces whatever is at the canonical path otherwise
RaceRename(p) ==
    /\ procs[p].pc = "rename"
    /\ IF ExistsSync(fs, LEGACY_CONFIG_PATH)
       THEN /\ fs' = RenameSync(fs, LEGACY_CONFIG_PATH, NEW_CONFIG_PATH)
            /\ procs' = [procs EXCEPT ![p] = [pc |-> "done", outcome |-> "migrated"]]
       ELSE /\ fs' = fs
            /\ procs' = [procs EXCEPT ![p] = [pc |-> "done", outcome |-> "lost"]]
    /\ prev' = fs
    /\ UNCHANGED actor
    /\ RaceFrame

\* fs.writeFileSync(NEW_CONFIG_PATH, ..., { flag: "wx" }): throws when the
\* canonical file exists
RaceWrite(p) ==
    /\ procs[p].pc = "write"
    /\ IF ExistsSync(fs, NEW_CONFIG_PATH)
       THEN /\ fs' = fs
            /\ procs' = [procs EXCEPT ![p] = [pc |-> "done", outcome |-> "lost"]]
       ELSE /\ fs' = WriteFileExclusive(fs, NEW_CONFIG_PATH,
                                        JSONStringify(DEFAULT_CONFIG), "none")
            /\ procs' = [procs EXCEPT ![p] = [pc |-> "done", outcome |-> "created"]]
    /\ prev' = fs
    /\ UNCHANGED actor
    /\ RaceFrame

\* another actor creates a configuration file where there is none
ActorCreates ==
    /\ actor < MaxActorWrites
    /\ \E path \in {LEGACY_CONFIG_PATH, NEW_CONFIG_PATH} :
          /\ ~ExistsSync(fs, path)
          /\ fs' = WriteFileSync(
                      IF path = NEW_CONFIG_PATH THEN MkdirSync(fs, CONFIG_DIR) ELSE fs,
                      path,
                      IF path = NEW_CONFIG_PATH THEN RaceCanonicalText ELSE RaceLegacyText)
    /\ actor' = actor + 1
    /\ prev' = fs
    /\ UNCHANGED procs
    /\ RaceFrame

NextRace ==
    \/ \E p \in Procs :
          \/ RaceMkdir(p)
          \/ RaceExistsNew(p)
          \/ RaceExistsLegacy(p)
          \/ RaceRename(p)
          \/ RaceWrite(p)
    \/ ActorCreates

SpecRace == InitRace /\ [][NextRace]_vars

(***************************************************************************)
(* SpecBuildRace: several build processes run generateSecurityTxt on one   *)
(* output directory, one system call at a time.  fs.writeFileSync(path,    *)
(* data) opens the file (creating or truncating it), writes data through   *)
(* the descriptor from the start of the file, and closes it.  A descriptor *)
(* follows its file when the file is renamed.                              *)
(***************************************************************************)
\* the configuration each racing build has loaded
BuildConfig(p) == normaliseConfig(IF p = 1 THEN DEFAULT_CONFIG ELSE ReadmeExample)

\* const contents = lines.join("\n") + "\n", of process p
RaceContents(p) == TextFile(SecurityTxtContents(BuildConfig(p)))

\* a file just created or truncated by open
EmptyFile == TextFile(<<>>)

\* a write of data at the start of a file that holds old: what lies beyond
\* the end of data stays
WriteAtStart(old, data) ==
    IF old.kind = "text" /\ Len(old.body) > Len(data.body)
    THEN TextFile(data.body \o SubSeq(old.body, Len(data.body) + 1, Len(old.body)))
    ELSE data

\* the target a process is writing, by its position
TargetAt(pc) ==
    IF pc \in {"wk-open", "wk-write", "wk-rename"}
    THEN WellKnownTarget(OutDir)
    ELSE RootTarget(OutDir)

\* if (config.output.root) { atomicWrite(...) }
AfterWellKnown(p) ==
    IF Truthy(Get(Get(BuildConfig(p), "output"), "root")) THEN "root-open" ELSE "done"

\* if (config.output.wellKnown) { fs.mkdirSync(...); atomicWrite(...) }
AfterGuards(p) ==
    IF Truthy(Get(Get(BuildConfig(p), "output"), "wellKnown")) THEN "mkdir"
    ELSE AfterWellKnown(p)

Finished(proc, outcome) == [pc |-> "done", fd |-> "none", outcome |-> outcome]

InitBuildRace ==
    /\ \E old \in {NoFile, OldOutput}, outDir \in BOOLEAN :
          /\ ~outDir => old = NoFile
          /\ fs = [files |-> [p \in FilePaths |->
                                 IF p \in {WellKnownTarget(OutDir), RootTarget(OutDir)}
                                 THEN old ELSE NoFile],
                   dirs |-> (IF outDir THEN {OutDir} ELSE {})
                            \cup (IF old # NoFile THEN {WellKnownDir(OutDir)} ELSE {})]
    /\ procs = [p \in Procs |-> [pc |-> "guards", fd |-> "none", outcome |-> "none"]]
    /\ actor = 0
    /\ raised = NoRaise
    /\ phase = "build-race"
    /\ input = Undef
    /\ config = Undef
    /\ text = NoText
    /\ last = NoOp
    /\ prev = fs
    /\ settled = NoSnapshot
    /\ calls = 0
    /\ start = fs

BuildRaceFrame ==
    UNCHANGED <<phase, input, config, text, last, prev, settled, calls, start, actor, raised>>

\* if (!config.enabled) return; if (!outDir || !fs.existsSync(outDir)) return
BuildGuards(p) ==
    /\ procs[p].pc = "guards"
    /\ procs' = IF Truthy(Get(BuildConfig(p), "enabled")) /\ ExistsSync(fs, OutDir)
                THEN [procs EXCEPT ![p].pc = AfterGuards(p)]
                ELSE [procs EXCEPT ![p] = Finished(@, "skipped")]
    /\ UNCHANGED fs
    /\ BuildRaceFrame

\* fs.mkdirSync(wellKnownDir, { recursive: true })
BuildMkdir(p) ==
    /\ procs[p].pc = "mkdir"
    /\ fs' = MkdirSync(fs, WellKnownDir(OutDir))
    /\ procs' = [procs EXCEPT ![p].pc = "wk-open"]
    /\ BuildRaceFrame

\* fs.writeFileSync(tempPath, contents, "utf-8"), the open: the temporary
\* file is created, or the one that is there is truncated
BuildOpenTemp(p) ==
    /\ procs[p].pc \in {"wk-open", "root-open"}
    /\ fs' = WriteFileSync(fs, TempPath(TargetAt(procs[p].pc)), EmptyFile)
    /\ procs' = [procs EXCEPT ![p].pc = IF @ = "wk-open" THEN "wk-write" ELSE "root-write",
                              ![p].fd = "temp"]
    /\ BuildRaceFrame

\* fs.writeFileSync(tempPath, contents, "utf-8"), the write and the close:
\* the contents go to the file the descriptor is on, wherever it is now
BuildWriteTemp(p) ==
    /\ procs[p].pc \in {"wk-write", "root-write"}
    /\ LET targetPath == TargetAt(procs[p].pc)
           at == IF procs[p].fd = "temp" THEN TempPath(targetPath) ELSE targetPath
       IN  fs' = IF procs[p].fd = "unlinked" THEN fs
                 ELSE WriteFileSync(fs, at, WriteAtStart(fs.files[at], RaceContents(p)))
    /\ procs' = [procs EXCEPT ![p].pc = IF @ = "wk-write" THEN "wk-rename" ELSE "root-rename",
                              ![p].fd = "none"]
    /\ BuildRaceFrame

\* fs.renameSync(tempPath, targetPath): throws when the temporary file is
\* gone (the catch block ends the call); otherwise the file replaces the
\* target, and the descriptors other processes hold move with their files
BuildRename(p) ==
    /\ procs[p].pc \in {"wk-rename", "root-rename"}
    /\ LET targetPath == TargetAt(procs[p].pc)
           writing == IF procs[p].pc = "wk-rename" THEN "wk-write" ELSE "root-write"
           next == IF procs[p].pc = "wk-rename" THEN AfterWellKnown(p) ELSE "done"
       IN  IF ExistsSync(fs, TempPath(targetPath))
           THEN /\ fs' = RenameSync(fs, TempPath(targetPath), targetPath)
                /\ procs' =
                     [q \in Procs |->
                        IF q = p
                        THEN IF next = "done" THEN Finished(procs[p], "generated")
                             ELSE [procs[p] EXCEPT !.pc = next]
                        ELSE IF procs[q].pc = writing
                        THEN [procs[q] EXCEPT
                                 !.fd = IF @ = "temp" THEN "target" ELSE "unlinked"]
                        ELSE procs[q]]
           ELSE /\ fs' = fs
                /\ procs' = [procs EXCEPT ![p] = Finished(@, "failed")]
    /\ BuildRaceFrame

NextBuildRace ==
    \E p \in Procs :
        \/ BuildGuards(p)
        \/ BuildMkdir(p)
        \/ BuildOpenTemp(p)
        \/ BuildWriteTemp(p)
        \/ BuildRename(p)

SpecBuildRace == InitBuildRace /\ [][NextBuildRace]_vars

(***************************************************************************)
(*                               CLAIMS                                    *)
(***************************************************************************)
\* property of a JSON object, undefined when it is not there
Field(object, key) == IF key \in DOMAIN object.v THEN object.v[key] ELSE Undef

Normalised == phase \in {"normalised", "generated"}

HasContactPrefix(value) ==
    value.t = "string" /\ Len(value.v) >= 1 /\ value.v[1] \in {MAILTO, HTTPS}

NonEmptyString(value) == value.t = "string" /\ value.v # <<>>

HttpsString(value) == value.t = "string" /\ Len(value.v) >= 1 /\ value.v[1] = HTTPS

\* the inputs C6 lists: not an object, policy not an object, contact not an
\* array or without a prefixed entry, expires not a parseable string
FailsRequiredGate(in) ==
    \/ in.t # "object"
    \/ Field(in, "policy").t # "object"
    \/ Field(Field(in, "policy"), "contact").t # "array"
    \/ \A i \in 1..Len(Field(Field(in, "policy"), "contact").v) :
          ~HasContactPrefix(Field(Field(in, "policy"), "contact").v[i])
    \/ Field(Field(in, "policy"), "expires").t # "string"
    \/ Field(Field(in, "policy"), "expires").v \notin ParseableDates

FallbackLiteral ==
    [t |-> "object",
     v |-> [enabled |-> [t |-> "boolean", v |-> FALSE],
            output  |-> [t |-> "object",
                         v |-> [wellKnown |-> [t |-> "boolean", v |-> FALSE],
                                root      |-> [t |-> "boolean", v |-> FALSE]]],
            policy  |-> [t |-> "object",
                         v |-> [contact |-> [t |-> "array", v |-> <<>>],
                                expires |-> [t |-> "string",
                                             v |-> <<"1970-01-01T00:00:00.000Z">>]]]]]

\* C6: every input that fails the required-field gate is normalised to the
\* Fallback Config in full: enabled false, both outputs false, no contact,
\* epoch expires and no optional field, whatever the input's own enabled,
\* output and optional fields are.
C6_AllOrNothing ==
    (Normalised /\ FailsRequiredGate(input)) => config = FallbackLiteral

\* an enabled input with both outputs on and valid optional fields whose
\* contact array has entries but none with a prefix was normalised
C6_Witness ==
    /\ phase = "normalised"
    /\ input.t = "object"
    /\ Field(input, "enabled") = Bool(TRUE)
    /\ Field(input, "output") = BothOutputs
    /\ Field(input, "policy").t = "object"
    /\ Field(Field(input, "policy"), "contact").t = "array"
    /\ Len(Field(Field(input, "policy"), "contact").v) = 2
    /\ Field(Field(input, "policy"), "expires") = GoodDate
    /\ Field(Field(input, "policy"), "hiring") = Str(<<HTTPS, "hiring">>)
    /\ config = FallbackLiteral

\* the indices of the entries of a that satisfy P
KeptIndices(a, P(_)) == { i \in 1..Len(a) : P(a[i]) }

\* c is the entries of a that satisfy P, in the order of a
IsFiltered(c, a, P(_)) ==
    LET idx == KeptIndices(a, P)
    IN  /\ Len(c) = Cardinality(idx)
        /\ \A k \in 1..Len(c) :
              c[k] = a[CHOOSE i \in idx : Cardinality({j \in idx : j <= i}) = k]

OptionalScalars == {"encryption", "acknowledgments", "policy", "hiring", "csaf"}

AllowedPolicyFields ==
    {"contact", "expires", "preferredLanguages", "canonical"} \cup OptionalScalars

\* the filtered optional array, or undefined when nothing is left of it
KeptArray(result, given, P(_)) ==
    IF given.t = "array" /\ KeptIndices(given.v, P) # {}
    THEN result.t = "array" /\ IsFiltered(result.v, given.v, P)
    ELSE result = Undef

\* C7: for an input that passes the gate, contact is exactly the prefixed
\* entries in input order; an optional scalar is kept unchanged iff it is a
\* non-empty https:// string; preferredLanguages (canonical) is the ordered
\* sub-sequence of its non-empty string (https://) entries iff that is not
\* empty; every other optional field is undefined and no other field exists.
C7_PreservesValidFields ==
    (Normalised /\ ~FailsRequiredGate(input)) =>
        LET given  == Field(input, "policy")
            result == Field(config, "policy")
        IN  /\ result.t = "object"
            /\ DOMAIN result.v = AllowedPolicyFields
            /\ result.v.contact.t = "array"
            /\ IsFiltered(result.v.contact.v, Field(given, "contact").v, HasContactPrefix)
            /\ \A f \in OptionalScalars :
                  result.v[f] = IF HttpsString(Field(given, f)) THEN Field(given, f)
                                ELSE Undef
            /\ KeptArray(result.v.preferredLanguages,
                         Field(given, "preferredLanguages"), NonEmptyString)
            /\ KeptArray(result.v.canonical, Field(given, "canonical"), HttpsString)

\* a contact array whose second entry alone is valid was filtered, with
\* optional fields given
C7_Witness ==
    /\ phase = "normalised"
    /\ ~FailsRequiredGate(input)
    /\ Len(Field(Field(input, "policy"), "contact").v) = 2
    /\ ~HasContactPrefix(Field(Field(input, "policy"), "contact").v[1])
    /\ Field(config, "policy").v.contact.v
         = <<Field(Field(input, "policy"), "contact").v[2]>>
    /\ Field(config, "policy").v.csaf = Str(<<HTTPS, "csaf">>)

RECURSIVE Flatten(_)
\* the concatenation of a sequence of strings
Flatten(strings) ==
    IF strings = <<>> THEN <<>> ELSE Head(strings) \o Flatten(Tail(strings))

RECURSIVE SplitLines(_, _)
\* the lines of a text, each ended by LF; a rest without LF is a last line
SplitLines(body, line) ==
    IF body = <<>> THEN (IF line = <<>> THEN <<>> ELSE <<line>>)
    ELSE IF Head(body) = LF THEN <<line>> \o SplitLines(Tail(body), <<>>)
    ELSE SplitLines(Tail(body), Append(line, Head(body)))

Present(value) == value # Undef

\* the directives C8 lists for a configuration, in its order, without LF
ExpectedDirectives(cfg) ==
    LET p == Field(cfg, "policy").v
        one(name, f) == IF Present(p[f]) THEN << <<name>> \o p[f].v >> ELSE <<>>
        tags == IF Present(p.preferredLanguages) THEN p.preferredLanguages.v ELSE <<>>
        urls == IF Present(p.canonical) THEN p.canonical.v ELSE <<>>
    IN  [i \in 1..Len(p.contact.v) |-> <<"Contact: ">> \o p.contact.v[i].v]
        \o << <<"Expires: ">> \o p.expires.v >>
        \o one("Encryption: ", "encryption")
        \o one("Acknowledgments: ", "acknowledgments")
        \o (IF Present(p.preferredLanguages)
            THEN << <<"Preferred-Languages: ">>
                    \o Flatten([i \in 1..Len(tags) |->
                                  IF i = 1 THEN tags[i].v ELSE <<", ">> \o tags[i].v]) >>
            ELSE <<>>)
        \o [i \in 1..Len(urls) |-> <<"Canonical: ">> \o urls[i].v]
        \o one("Policy: ", "policy")
        \o one("Hiring: ", "hiring")
        \o one("CSAF: ", "csaf")

\* no string of the configuration's policy holds a line break
NoLineBreaks(cfg) ==
    \A i \in 1..Len(ExpectedDirectives(cfg)) :
        \A j \in 1..Len(ExpectedDirectives(cfg)[i]) : ExpectedDirectives(cfg)[i][j] # LF

\* C8: the contents generated for an enabled configuration are, in this
\* order and with nothing else, a Contact directive per contact entry, one
\* Expires, then Encryption, Acknowledgments, one Preferred-Languages with
\* the tags joined by ", ", a Canonical per entry, Policy, Hiring, CSAF,
\* each optional one iff its field is present, each followed by exactly one
\* line feed; when no value holds a line break, these are the text's lines.
C8_SerializationOrder ==
    phase = "generated" =>
        /\ text = Flatten([i \in 1..Len(ExpectedDirectives(config)) |->
                              ExpectedDirectives(config)[i] \o <<LF>>])
        /\ NoLineBreaks(config) => SplitLines(text, <<>>) = ExpectedDirectives(config)

\* the README's example configuration was serialised to the README's output
C8_Witness ==
    /\ phase = "generated"
    /\ input = ReadmeExample
    /\ text = << "Contact: ", MAILTO, "security@example.com", LF,
                 "Expires: ", "2026-12-31T18:37:07.000Z", LF,
                 "Preferred-Languages: ", "en", LF,
                 "Canonical: ", HTTPS, "example.com/.well-known/security.txt", LF,
                 "Canonical: ", HTTPS, "example.com/security.txt", LF,
                 "Hiring: ", HTTPS, "example.com/careers/security", LF >>

DirectiveNames ==
    {"Contact: ", "Expires: ", "Encryption: ", "Acknowledgments: ",
     "Preferred-Languages: ", "Canonical: ", "Policy: ", "Hiring: ", "CSAF: "}

\* C9: every line of the text generated from a normalised input is one
\* directive "Name: value" with an allow-listed Name and a non-empty value,
\* and there are as many lines as directive instances emitted.
C9_NoDirectiveInjection ==
    phase = "generated" =>
        LET lines == SplitLines(text, <<>>)
        IN  /\ \A i \in 1..Len(lines) :
                  Len(lines[i]) >= 2 /\ lines[i][1] \in DirectiveNames
            /\ Len(lines) = Len(ExpectedDirectives(config))

\* the configuration file of a project: the canonical one when it exists,
\* the legacy one otherwise
ConfigurationFile(f) ==
    IF f.files[NEW_CONFIG_PATH] # NoFile THEN f.files[NEW_CONFIG_PATH]
    ELSE f.files[LEGACY_CONFIG_PATH]

\* the configuration a build works from once the setup hook has run: that
\* file's, or the default template's when there is no file
ConfigurationText(f) ==
    IF ConfigurationFile(f) = NoFile THEN [kind |-> "json", doc |-> DEFAULT_CONFIG]
    ELSE ConfigurationFile(f)

\* a text that parses to a configuration passing the gate, enabled, with
\* both outputs on
PublishesBoth(file) ==
    /\ file.kind = "json"
    /\ ~FailsRequiredGate(file.doc)
    /\ Field(file.doc, "enabled") = Bool(TRUE)
    /\ Field(file.doc, "output") = BothOutputs

SerializedDirectives(file) ==
    TextFile(Flatten([i \in 1..Len(ExpectedDirectives(normaliseConfig(file.doc))) |->
                         ExpectedDirectives(normaliseConfig(file.doc))[i] \o <<LF>>]))

\* C1: when the project starts with a valid, enabled configuration with both
\* outputs on (at the canonical path, at the legacy path, or none at all so
\* that the default is scaffolded) and an output directory, the setup hook
\* followed by the build-done hook, with no filesystem failure, leaves both
\* security.txt files holding that configuration's serialized directives.
C1_EndToEnd ==
    ( /\ last = [op |-> "build", fail |-> "none", fail2 |-> "none"]
      /\ calls = 1
      /\ settled.taken
      /\ ExistsSync(start, OutDir)
      /\ PublishesBoth(ConfigurationText(start)) )
    => /\ fs.files[WellKnownTarget(OutDir)] = SerializedDirectives(ConfigurationText(start))
       /\ fs.files[RootTarget(OutDir)] = SerializedDirectives(ConfigurationText(start))

\* C2: loadSecurityConfig reads the canonical file whenever it exists and
\* the legacy file only when it does not: its result is the normalisation
\* of that file's parsed content, or the Fallback Config when there is no
\* such file or it does not parse.
C2_CanonicalFirst ==
    (last.op = "build" /\ last.fail = "none") =>
        config = IF ConfigurationFile(prev).kind = "json"
                 THEN normaliseConfig(ConfigurationFile(prev).doc)
                 ELSE FallbackLiteral

\* C3: a setup call that finds a legacy file and no canonical file, and
\* meets no failure, leaves no legacy file and the prior legacy content at
\* the canonical path; a setup call that finds a canonical file leaves it
\* and the legacy path as they were.
C3_Migration ==
    last.op = "setup" =>
        /\ ( /\ last.fail = "none"
             /\ prev.files[LEGACY_CONFIG_PATH] # NoFile
             /\ prev.files[NEW_CONFIG_PATH] = NoFile )
           => /\ fs.files[LEGACY_CONFIG_PATH] = NoFile
              /\ fs.files[NEW_CONFIG_PATH] = prev.files[LEGACY_CONFIG_PATH]
        /\ prev.files[NEW_CONFIG_PATH] # NoFile
           => /\ fs.files[NEW_CONFIG_PATH] = prev.files[NEW_CONFIG_PATH]
              /\ fs.files[LEGACY_CONFIG_PATH] = prev.files[LEGACY_CONFIG_PATH]

\* a legacy file was migrated by the first setup call
C3_Witness ==
    /\ last = [op |-> "setup", fail |-> "none", fail2 |-> "none"]
    /\ calls = 1
    /\ start.files[LEGACY_CONFIG_PATH] = JSONStringify(ReadmeExample)
    /\ start.files[NEW_CONFIG_PATH] = NoFile
    /\ fs.files[NEW_CONFIG_PATH] = JSONStringify(ReadmeExample)
    /\ fs.files[LEGACY_CONFIG_PATH] = NoFile

\* C4: once a setup call has run without failure, the canonical file's
\* content and the legacy path stay as that call left them through every
\* further call.
C4_Idempotent ==
    settled.taken =>
        /\ fs.files[NEW_CONFIG_PATH] = settled.canonical
        /\ fs.files[LEGACY_CONFIG_PATH] = settled.legacy

\* a second setup call ran on the default file that the first one created
C4_Witness ==
    /\ last = [op |-> "setup", fail |-> "none", fail2 |-> "none"]
    /\ calls = 2
    /\ start.files[NEW_CONFIG_PATH] = NoFile
    /\ start.files[LEGACY_CONFIG_PATH] = NoFile
    /\ prev.files[NEW_CONFIG_PATH] = [kind |-> "json", doc |-> DEFAULT_CONFIG]
    /\ fs.files[NEW_CONFIG_PATH] = [kind |-> "json", doc |-> DEFAULT_CONFIG]
    /\ fs.files[LEGACY_CONFIG_PATH] = NoFile

ConfigurationOff(f, failLoad) ==
    \/ failLoad # "none"
    \/ ConfigurationFile(f).kind # "json"
    \/ FailsRequiredGate(ConfigurationFile(f).doc)
    \/ Field(ConfigurationFile(f).doc, "enabled") # Bool(TRUE)

\* C10: a build-done hook that runs while the configuration is off creates
\* or modifies no file or directory.
C10_FailClosed ==
    (last.op = "build" /\ ConfigurationOff(prev, last.fail)) => fs = prev


(***************************************************************************)
(* The writing part of a build, seen from the state after the hook.        *)
(***************************************************************************)
\* the last hook was a build whose generateSecurityTxt got past its guards
Generated ==
    /\ last.op = "build"
    /\ Get(config, "enabled") = Bool(TRUE)
    /\ ExistsSync(prev, OutDir)

OutputFlag(name) == Get(Get(config, "output"), name) = Bool(TRUE)

IntendedContents == TextFile(SecurityTxtContents(config))

WellKnownFaults == {"wk-write", "wk-rename"}

RootFaults == {"root-write", "root-rename"}

\* the build called atomicWrite for the .well-known location
WellKnownWriteCalled == Generated /\ OutputFlag("wellKnown") /\ last.fail2 # "mkdir"

\* the build called atomicWrite for the root location
RootWriteCalled ==
    /\ Generated
    /\ OutputFlag("root")
    /\ OutputFlag("wellKnown") => last.fail2 \notin WellKnownFaults \cup {"mkdir"}

\* what a call of atomicWrite for targetPath has left, when the call failed
\* with one of `faults` or else completed; `others` are the paths that other
\* calls of the same build may have changed
AtomicWriteOutcome(targetPath, faults, others) ==
    IF last.fail2 \in faults
    THEN /\ fs.files[targetPath] = prev.files[targetPath]
         /\ \A p \in FilePaths \ ({TempPath(targetPath)} \cup others) :
                fs.files[p] = prev.files[p]
    ELSE /\ fs.files[targetPath] = IntendedContents
         /\ fs.files[TempPath(targetPath)] = NoFile

\* C11: after atomicWrite completes the target holds the full intended
\* contents and no temporary file remains next to it; when the write of the
\* temporary file or the rename fails, the target keeps its prior contents or
\* stays absent, is never truncated, and nothing but the temporary sibling
\* file is left behind.
C11_AtomicWrite ==
    /\ WellKnownWriteCalled =>
          AtomicWriteOutcome(WellKnownTarget(OutDir), WellKnownFaults, {})
    /\ RootWriteCalled =>
          AtomicWriteOutcome(RootTarget(OutDir), RootFaults,
                             {WellKnownTarget(OutDir), TempPath(WellKnownTarget(OutDir))})
    /\ \A targetPath \in {WellKnownTarget(OutDir), RootTarget(OutDir)} :
          fs.files[targetPath] # Truncated

\* a rename that failed over a file of an earlier build: the old file is
\* still the target and the new contents sit in the temporary file
C11_Witness ==
    /\ WellKnownWriteCalled
    /\ last.fail2 = "wk-rename"
    /\ prev.files[WellKnownTarget(OutDir)] = OldOutput
    /\ fs.files[WellKnownTarget(OutDir)] = OldOutput
    /\ fs.files[TempPath(WellKnownTarget(OutDir))] = IntendedContents


\* C12: whenever generateSecurityTxt returns for an enabled configuration
\* with both output flags true, the files at the .well-known location and at
\* the root location have the same contents, also when files of an earlier
\* build are replaced and when one of the filesystem calls fails.
C12_IdenticalOutputs ==
    (Generated /\ OutputFlag("wellKnown") /\ OutputFlag("root")) =>
        fs.files[WellKnownTarget(OutDir)] = fs.files[RootTarget(OutDir)]


\* the reader met a failure in the last build: a call of it threw, or the
\* file it read is not JSON
LoadFailed ==
    /\ last.op = "build"
    /\ \/ last.fail # "none"
       \/ prev.files[ReaderConfigPath] = GarbageText

\* C13: whatever filesystem call fails, ensureSecurityConfigFile,
\* loadSecurityConfig, generateSecurityTxt and both hooks return without
\* throwing; a reader that met a failure returns the Fallback Config, and
\* nothing is written to disk in that build.
C13_NoFailureReachesBuild ==
    /\ raised = NoRaise
    /\ LoadFailed => (config = FALLBACK_CONFIG /\ fs = prev)

\* the read of a valid, enabled configuration failed
C13_Witness ==
    /\ last = [op |-> "build", fail |-> "read", fail2 |-> "none"]
    /\ JSONParse(prev.files[ReaderConfigPath]).ok
    /\ Get(normaliseConfig(JSONParse(prev.files[ReaderConfigPath]).value), "enabled")
          = Bool(TRUE)
    /\ ExistsSync(prev, OutDir)
    /\ config = FALLBACK_CONFIG
    /\ fs = prev


\* the location's file, its temporary sibling and the directories are as
\* they were before the build
LeftAsItWas(targetPath) ==
    /\ fs.files[targetPath] = prev.files[targetPath]
    /\ fs.files[TempPath(targetPath)] = prev.files[TempPath(targetPath)]

\* C14: for an enabled configuration generateSecurityTxt writes the
\* .well-known location exactly when output.wellKnown is true and the root
\* location exactly when output.root is true; a location whose flag is false
\* is left as it was, the .well-known directory is created only when
\* output.wellKnown is true, and a location whose flag is true is written
\* whatever the other flag is and whatever became of the other write (only a
\* failure of its own calls keeps it from being written).
C14_IndependentFlags ==
    Generated =>
        /\ (OutputFlag("wellKnown") /\ last.fail2 \notin WellKnownFaults \cup {"mkdir"})
              => fs.files[WellKnownTarget(OutDir)] = IntendedContents
        /\ ~OutputFlag("wellKnown")
              => /\ LeftAsItWas(WellKnownTarget(OutDir))
                 /\ WellKnownDir(OutDir) \in fs.dirs <=> WellKnownDir(OutDir) \in prev.dirs
        /\ (OutputFlag("root") /\ last.fail2 \notin RootFaults)
              => fs.files[RootTarget(OutDir)] = IntendedContents
        /\ ~OutputFlag("root") => LeftAsItWas(RootTarget(OutDir))


\* the complete texts a target may hold during a race of builds: what it
\* held when the builds began, or the contents of one of the processes
CompleteTexts(targetPath) ==
    {start.files[targetPath]} \cup { RaceContents(p) : p \in Procs }

\* C15: while builds race on one output directory, with the open, the
\* write and the rename of each atomicWrite interleaved in any order, each
\* target holds in every state the complete text of one process (or what it
\* held before), never an empty or partly written file.
C15_RacingBuilds ==
    \A targetPath \in {WellKnownTarget(OutDir), RootTarget(OutDir)} :
        fs.files[targetPath] \in CompleteTexts(targetPath)

====
